---- MODULE Spec2Model ----
(***************************************************************************)
(* Model of the wind-tunnel demos: the WindTunnel and SimulationParameters *)
(* dataclasses (lib/models.py, lib/scenarios.py), WindTunnelScenario and   *)
(* its command pipeline (lib/scenarios.py), the task monitor               *)
(* (monitor_and_download_tasks.py) and the batch submission scripts        *)
(* (batch_wind_tunnels.py, large_job_submission.py).                       *)
(*                                                                         *)
(* Python values are modelled as follows.  A dict (and a **kwargs argument *)
(* list) is a sequence of <<key, value>> pairs in insertion order.  An     *)
(* Optional value is a sequence of length 0 (None) or 1 (the value).  The  *)
(* outcome of a call that may raise is a record [ok, err, obj].            *)
(***************************************************************************)
EXTENDS Integers, Sequences, FiniteSets, TLC

VARIABLES
    prog,        \* which script of the repository is running
    pc,          \* position of that script
    wt_in,       \* keyword arguments of the last WindTunnel(...) call
    wt,          \* outcome of that call
    sp_in,       \* keyword arguments of the last SimulationParameters(...) call
    sp,          \* outcome of that call
    rt,          \* outcome of rebuilding a model from its own to_dict()
    scenario,    \* the wind_tunnel held by the WindTunnelScenario
    tasks,       \* the tasks handed to the backend, in submission order
    json_lines,      \* monitor: the records of the task log, in file order
    DOWNLOAD_TASKS,  \* monitor: the download flag
    task_counts,     \* monitor: status -> count
    statuses,        \* monitor: the status get_status() returned for each record so far
    calls,           \* monitor: the counting steps and download_outputs calls, in order
    printed,         \* monitor: what main printed
    object_paths,           \* batch: the objects to simulate
    flow_velocity_range_x,  \* batch: [low, high] of the x component
    flow_velocity_range_y,  \* batch: [low, high] of the y component
    flow_velocity_range_z,  \* batch: [low, high] of the z component
    the_machine_group,      \* batch: the machine group and whether it was started
    sampled_velocity,       \* batch: the flow velocity run_simulation sampled last
    runs                    \* batch: completed calls of run_simulation

----------------------------------------------------------------------------
(* Bounds of the model *)

\* flow velocity components are 20*k, k in -MaxVelIdx..MaxVelIdx (vx) or 0..MaxVelIdx
MaxVelIdx == 5
\* domain bounds of an axis are drawn from 0..MaxDom
MaxDom == 1
\* num_iterations and resolution are drawn from -MaxParam..MaxParam
MaxParam == 2
\* simulate is called at most MaxSims times on one scenario
MaxSims == 2
\* the task log holds at most MaxLog records, with input directories 1..MaxDirs
MaxLog == 3
MaxDirs == 2
\* the batch scripts are given at most MaxObjects objects
MaxObjects == 2
\* the ends of the flow velocity ranges are drawn from 0..MaxRange
MaxRange == 2

----------------------------------------------------------------------------
(* Python helpers *)

None == <<>>
Some(v) == <<v>>

Keys(d) == [i \in 1..Len(d) |-> d[i][1]]
KeySet(d) == {d[i][1] : i \in 1..Len(d)}
HasKey(d, k) == k \in KeySet(d)
Get(d, k) == d[CHOOSE i \in 1..Len(d) : d[i][1] = k][2]

Raise(e, noobj) == [ok |-> FALSE, err |-> e, obj |-> noobj]
Return(o) == [ok |-> TRUE, err |-> "", obj |-> o]

----------------------------------------------------------------------------
(* State of the scripts *)

NoResult == [ok |-> FALSE, err |-> "unset", obj |-> <<>>]
NoWindTunnel == [flow_velocity |-> <<>>, domain |-> None]

modelVars == <<wt_in, wt, sp_in, sp, rt, scenario, tasks>>
monitorVars == <<json_lines, DOWNLOAD_TASKS, task_counts, statuses, calls, printed>>
batchVars == <<object_paths, flow_velocity_range_x, flow_velocity_range_y,
               flow_velocity_range_z, the_machine_group, sampled_velocity, runs>>

\* the state of the scripts that are not running
NoModels ==
    /\ wt_in = <<>> /\ wt = NoResult
    /\ sp_in = <<>> /\ sp = NoResult
    /\ rt = NoResult
    /\ scenario = NoWindTunnel
    /\ tasks = <<>>
NoMonitor ==
    /\ json_lines = <<>>
    /\ DOWNLOAD_TASKS = TRUE
    /\ task_counts = <<>>
    /\ statuses = <<>>
    /\ calls = <<>>
    /\ printed = None
NoBatch ==
    /\ object_paths = <<>>
    /\ flow_velocity_range_x = <<0, 0>>
    /\ flow_velocity_range_y = <<0, 0>>
    /\ flow_velocity_range_z = <<0, 0>>
    /\ the_machine_group = [kind |-> "none", started |-> FALSE]
    /\ sampled_velocity = <<>>
    /\ runs = 0

----------------------------------------------------------------------------
(* lib/models.py: WindTunnel *)


\* the spec's ValidationError is what models.py raises from its assert statements
ValidationError == "AssertionError"

DefaultFlowVelocity == <<30, 0, 0>>
DefaultDomain == << <<"x", <<-5, 15>> >>, <<"y", <<-4, 4>> >>, <<"z", <<0, 8>> >> >>

\* the limit taken as inclusive
WindTunnel_post_init_Inclusive(flow_velocity, domain) ==
    LET velocity_magnitude == flow_velocity[1] * flow_velocity[1]
                              + flow_velocity[2] * flow_velocity[2]
                              + flow_velocity[3] * flow_velocity[3]
        dom == IF domain = None THEN Some(DefaultDomain) ELSE domain
    IN  IF ~(velocity_magnitude <= 100 * 100)
        THEN Raise(ValidationError, NoWindTunnel)
        ELSE IF Keys(dom[1]) # <<"x", "y", "z">>
             THEN Raise(ValidationError, NoWindTunnel)
             ELSE Return([flow_velocity |-> flow_velocity, domain |-> dom])

WindTunnel_post_init(flow_velocity, domain) ==
    LET velocity_magnitude == flow_velocity[1] * flow_velocity[1]
                              + flow_velocity[2] * flow_velocity[2]
                              + flow_velocity[3] * flow_velocity[3]
        dom == IF domain = None THEN Some(DefaultDomain) ELSE domain
    IN  IF ~(velocity_magnitude < 100 * 100)
        THEN Raise(ValidationError, NoWindTunnel)
        ELSE IF Keys(dom[1]) # <<"x", "y", "z">>
             THEN Raise(ValidationError, NoWindTunnel)
             ELSE Return([flow_velocity |-> flow_velocity, domain |-> dom])

\* the dataclass-generated __init__: unknown keywords are a TypeError, missing
\* ones take the field defaults, then __post_init__ runs
WindTunnel(kwargs) ==
    IF ~(KeySet(kwargs) \subseteq {"flow_velocity", "domain"})
    THEN Raise("TypeError", NoWindTunnel)
    ELSE WindTunnel_post_init(
            IF HasKey(kwargs, "flow_velocity") THEN Get(kwargs, "flow_velocity")
                                               ELSE DefaultFlowVelocity,
            IF HasKey(kwargs, "domain") THEN Get(kwargs, "domain") ELSE None)

\* the domain left out of the mapping
WindTunnel_to_dict_NoDomain(self) ==
    << <<"flow_velocity", self.flow_velocity>> >>

WindTunnel_to_dict(self) ==
    << <<"flow_velocity", self.flow_velocity>>, <<"domain", self.domain>> >>

----------------------------------------------------------------------------
(* lib/scenarios.py: SimulationParameters *)

NoSimulationParameters == [num_iterations |-> 0, resolution |-> 0]

DefaultNumIterations == 100
DefaultResolution == 2

SimulationParameters(kwargs) ==
    IF ~(KeySet(kwargs) \subseteq {"num_iterations", "resolution"})
    THEN Raise("TypeError", NoSimulationParameters)
    ELSE Return([num_iterations |-> IF HasKey(kwargs, "num_iterations")
                                    THEN Get(kwargs, "num_iterations")
                                    ELSE DefaultNumIterations,
                 resolution |-> IF HasKey(kwargs, "resolution")
                                THEN Get(kwargs, "resolution")
                                ELSE DefaultResolution])

SimulationParameters_to_dict(self) ==
    << <<"num_iterations", self.num_iterations>>, <<"resolution", self.resolution>> >>

----------------------------------------------------------------------------
(* Inputs of the constructors *)

Velocities ==
    {<<20 * i, 20 * j, 20 * k>> : i \in -MaxVelIdx..MaxVelIdx,
                                  j \in 0..MaxVelIdx, k \in 0..MaxVelIdx}

AxisPairs == {<<lo, hi>> : lo \in 0..MaxDom, hi \in 0..MaxDom}

\* domains with the three axis keys in order, and two with other key lists
Domains ==
    {<< <<"x", px>>, <<"y", py>>, <<"z", pz>> >> : px \in AxisPairs, py \in AxisPairs,
                                                    pz \in AxisPairs}
    \cup {<< <<"y", <<-4, 4>> >>, <<"x", <<-5, 15>> >>, <<"z", <<0, 8>> >> >>,
          << <<"x", <<-5, 15>> >>, <<"y", <<-4, 4>> >> >>}

\* flow_velocity and domain are each passed or left to their defaults
VelocityArgs == {<<>>} \cup {<< <<"flow_velocity", fv>> >> : fv \in Velocities}
DomainArgs ==
    {<<>>, << <<"domain", None>> >>} \cup {<< <<"domain", Some(dom)>> >> : dom \in Domains}

ParamValues == -MaxParam..MaxParam

NumIterationsArgs == {<<>>} \cup {<< <<"num_iterations", v>> >> : v \in ParamValues}
ResolutionArgs == {<<>>} \cup {<< <<"resolution", v>> >> : v \in ParamValues}

----------------------------------------------------------------------------
(* Program "models": one model is built, then rebuilt from its to_dict() *)

InitModels ==
    /\ prog = "models"
    /\ pc = "start"
    /\ wt_in = <<>> /\ wt = NoResult
    /\ sp_in = <<>> /\ sp = NoResult
    /\ rt = NoResult
    /\ scenario = NoWindTunnel
    /\ tasks = <<>>
    /\ NoMonitor /\ NoBatch

NewWindTunnel ==
    /\ prog = "models" /\ pc = "start"
    /\ \E v \in VelocityArgs, d \in DomainArgs :
          /\ wt_in' = v \o d
          /\ wt' = WindTunnel(v \o d)
    /\ pc' = "wind_tunnel"
    /\ UNCHANGED <<prog, sp_in, sp, rt, scenario, tasks, monitorVars, batchVars>>

NewSimulationParameters ==
    /\ prog = "models" /\ pc = "start"
    /\ \E n \in NumIterationsArgs, r \in ResolutionArgs :
          /\ sp_in' = n \o r
          /\ sp' = SimulationParameters(n \o r)
    /\ pc' = "sim_params"
    /\ UNCHANGED <<prog, wt_in, wt, rt, scenario, tasks, monitorVars, batchVars>>

RebuildWindTunnel ==
    /\ prog = "models" /\ pc = "wind_tunnel" /\ wt.ok
    /\ rt' = WindTunnel(WindTunnel_to_dict(wt.obj))
    /\ pc' = "wind_tunnel_rebuilt"
    /\ UNCHANGED <<prog, wt_in, wt, sp_in, sp, scenario, tasks, monitorVars, batchVars>>

RebuildSimulationParameters ==
    /\ prog = "models" /\ pc = "sim_params" /\ sp.ok
    /\ rt' = SimulationParameters(SimulationParameters_to_dict(sp.obj))
    /\ pc' = "sim_params_rebuilt"
    /\ UNCHANGED <<prog, wt_in, wt, sp_in, sp, scenario, tasks, monitorVars, batchVars>>

----------------------------------------------------------------------------
(* lib/scenarios.py: WindTunnelScenario *)

SCENARIO_DIR == "wind_tunnel_input"

\* the pipeline without its decomposition stage
get_commands_NoDecompose ==
    << "runApplication surfaceFeatures",
       "runApplication blockMesh",
       "runParallel snappyHexMesh -overwrite",
       "runParallel potentialFoam",
       "runParallel simpleFoam",
       "runApplication reconstructParMesh -constant",
       "runApplication reconstructPar -latestTime" >>

get_commands ==
    << "runApplication surfaceFeatures",
       "runApplication blockMesh",
       "runApplication decomposePar -copyZero",
       "runParallel snappyHexMesh -overwrite",
       "runParallel potentialFoam",
       "runParallel simpleFoam",
       "runApplication reconstructParMesh -constant",
       "runApplication reconstructPar -latestTime" >>

\* the stage of the pipeline that a command of get_commands carries out
StageOf(command) ==
    CASE command = "runApplication surfaceFeatures" -> "extract_features"
      [] command = "runApplication blockMesh" -> "generate_block_mesh"
      [] command = "runApplication decomposePar -copyZero" -> "decompose_domain"
      [] command = "runParallel snappyHexMesh -overwrite" -> "parallel_mesh_refine"
      [] command = "runParallel potentialFoam" -> "initial_potential_solve"
      [] command = "runParallel simpleFoam" -> "steady_state_solve"
      [] command = "runApplication reconstructParMesh -constant" -> "reconstruct_mesh"
      [] command = "runApplication reconstructPar -latestTime" -> "reconstruct_fields"
      [] OTHER -> "unknown_stage"

\* the second mapping forgotten
KwargsFirstOnly(a, b) == Return(a)

\* f(**a, **b): a keyword given twice is a TypeError, otherwise all of a, then all of b

Kwargs(a, b) ==
    IF KeySet(a) \cap KeySet(b) # {} THEN Raise("TypeError", <<>>) ELSE Return(a \o b)

NoTask == [input_dir |-> "", params |-> <<>>, files |-> <<>>,
           machine_group |-> None, commands |-> <<>>]

\* WindTunnelScenario.simulate(**kwargs) of the scenario holding wind_tunnel: the
\* keywords are bound to (object_path, sim_params, machine_group); the template
\* directory is added with the merged substitution mapping, the object file is
\* added at its fixed place, and the input directory is run with get_commands()
simulate(wind_tunnel, kwargs) ==
    IF \/ ~(KeySet(kwargs) \subseteq {"object_path", "sim_params", "machine_group"})
       \/ ~HasKey(kwargs, "object_path")
    THEN Raise("TypeError", NoTask)
    ELSE LET object_path == Get(kwargs, "object_path")
             sim_params == IF HasKey(kwargs, "sim_params")
                           THEN Get(kwargs, "sim_params")
                           ELSE SimulationParameters(<<>>).obj
             machine_group == IF HasKey(kwargs, "machine_group")
                              THEN Get(kwargs, "machine_group")
                              ELSE None
             params == Kwargs(SimulationParameters_to_dict(sim_params),
                              WindTunnel_to_dict(wind_tunnel))
         IN  IF ~params.ok
             THEN Raise(params.err, NoTask)
             ELSE Return([input_dir |-> SCENARIO_DIR,
                          params |-> params.obj,
                          files |-> << <<object_path, "constant/triSurface/object.obj">> >>,
                          machine_group |-> machine_group,
                          commands |-> get_commands])

----------------------------------------------------------------------------
(* Program "example": windtunnel_example_run.py up to the submission; the   *)
(* scenario may be simulated again with another object                      *)

\* air flows in the x direction, as in the example scripts
ExampleVelocityArgs ==
    {<<>>, << <<"flow_velocity", <<30, 0, 0>> >> >>}
    \cup {<< <<"flow_velocity", <<20 * i, 0, 0>> >> >> : i \in 0..MaxVelIdx}

ExampleDomainArgs ==
    {<<>>,
     << <<"domain", Some(<< <<"x", <<-5, 15>> >>, <<"y", <<-5, 5>> >>,
                            <<"z", <<0, 8>> >> >>)>> >>}

ObjectPaths == {"vehicle.obj", "assets/vehicle.obj"}

InitExample ==
    /\ prog = "example"
    /\ pc = "start"
    /\ wt_in = <<>> /\ wt = NoResult
    /\ sp_in = <<>> /\ sp = NoResult
    /\ rt = NoResult
    /\ scenario = NoWindTunnel
    /\ tasks = <<>>
    /\ NoMonitor /\ NoBatch

ExampleWindTunnel ==
    /\ prog = "example" /\ pc = "start"
    /\ \E v \in ExampleVelocityArgs, d \in ExampleDomainArgs :
          /\ wt_in' = v \o d
          /\ wt' = WindTunnel(v \o d)
          /\ pc' = IF WindTunnel(v \o d).ok THEN "wind_tunnel" ELSE "raised"
    /\ UNCHANGED <<prog, sp_in, sp, rt, scenario, tasks, monitorVars, batchVars>>

ExampleSimulationParameters ==
    /\ prog = "example" /\ pc = "wind_tunnel"
    /\ \E n \in NumIterationsArgs, r \in ResolutionArgs :
          /\ sp_in' = n \o r
          /\ sp' = SimulationParameters(n \o r)
          /\ pc' = IF SimulationParameters(n \o r).ok THEN "sim_params" ELSE "raised"
    /\ UNCHANGED <<prog, wt_in, wt, rt, scenario, tasks, monitorVars, batchVars>>

\* WindTunnelScenario(wind_tunnel=wind_tunnel)
ExampleScenario ==
    /\ prog = "example" /\ pc = "sim_params"
    /\ scenario' = wt.obj
    /\ pc' = "scenario"
    /\ UNCHANGED <<prog, wt_in, wt, sp_in, sp, rt, tasks, monitorVars, batchVars>>

\* scenario.simulate(object_path=..., sim_params=sim_parameters), or with
\* sim_params left to its default
ExampleSimulate ==
    /\ prog = "example" /\ pc \in {"scenario", "submitted"}
    /\ Len(tasks) < MaxSims
    /\ \E object_path \in ObjectPaths,
          p \in {<<>>, << <<"sim_params", sp.obj>> >>} :
          LET r == simulate(scenario, << <<"object_path", object_path>> >> \o p)
          IN  /\ tasks' = IF r.ok THEN Append(tasks, r.obj) ELSE tasks
              /\ pc' = IF r.ok THEN "submitted" ELSE "raised_simulate"
    /\ UNCHANGED <<prog, wt_in, wt, sp_in, sp, rt, scenario, monitorVars, batchVars>>

----------------------------------------------------------------------------
(* monitor_and_download_tasks.py *)

Statuses == {"queued", "running", "success", "failed"}

\* inductiva.tasks.Task(task_id).get_status(): the backend answers with the
\* task's status, or the call raises when the id no longer resolves
get_status_outcomes ==
    {Return(s) : s \in Statuses} \cup {Raise("UnknownJobError", "")}

\* os.path.join(path, name), a path being the sequence of its components
join(path, name) == Append(path, name)

\* task_counts after one more task of this status
Count(counts, status) ==
    IF ~HasKey(counts, status)
    THEN Append(counts, <<status, 1>>)
    ELSE [k \in 1..Len(counts) |->
            IF counts[k][1] = status
            THEN <<status, counts[k][2] + 1>>
            ELSE counts[k]]

\* any terminal status taken for a finished task
ShouldDownload_AnyTerminal(status, flag) == status \in {"success", "failed"} /\ flag

\* the condition of the download: status == "success" and DOWNLOAD_TASKS
ShouldDownload(status, flag) == status = "success" /\ flag

\* the log file: record k is the k-th task submitted, with its input directory
InputDirs == {<<"inputs", d>> : d \in 1..MaxDirs}
JobLogs ==
    UNION {[1..n -> InputDirs] : n \in 0..MaxLog}

InitMonitor ==
    /\ prog = "monitor"
    /\ pc = "loop"
    /\ \E dirs \in JobLogs :
          json_lines = [k \in 1..Len(dirs) |-> [task_id |-> k, input_dir |-> dirs[k]]]
    /\ DOWNLOAD_TASKS \in BOOLEAN
    /\ task_counts = <<>>
    /\ statuses = <<>>
    /\ calls = <<>>
    /\ printed = None
    /\ NoModels /\ NoBatch

\* one iteration of the loop over json_lines
MonitorRecord ==
    /\ prog = "monitor" /\ pc = "loop"
    /\ Len(statuses) < Len(json_lines)
    /\ LET k == Len(statuses) + 1
           json_line == json_lines[k]
           task_input_dir == json_line.input_dir
           task_id == json_line.task_id
       IN  \E r \in get_status_outcomes :
              IF ~r.ok
              THEN /\ pc' = "raised"
                   /\ UNCHANGED <<task_counts, statuses, calls>>
              ELSE LET status == r.obj
                       counted == [op |-> "count", record |-> k, task_id |-> task_id,
                                   output_dir |-> <<>>]
                       download == [op |-> "download_outputs", record |-> k,
                                    task_id |-> task_id,
                                    output_dir |-> join(task_input_dir,
                                                        "downloaded_outputs")]
                   IN  /\ statuses' = Append(statuses, status)
                       /\ task_counts' = Count(task_counts, status)
                       /\ calls' = IF ShouldDownload(status, DOWNLOAD_TASKS)
                                   THEN calls \o <<counted, download>>
                                   ELSE Append(calls, counted)
                       /\ pc' = "loop"
    /\ UNCHANGED <<prog, json_lines, DOWNLOAD_TASKS, printed, modelVars, batchVars>>

\* print(task_counts)
MonitorPrint ==
    /\ prog = "monitor" /\ pc = "loop"
    /\ Len(statuses) = Len(json_lines)
    /\ printed' = Some(task_counts)
    /\ pc' = "done"
    /\ UNCHANGED <<prog, json_lines, DOWNLOAD_TASKS, task_counts, statuses, calls, modelVars,
                   batchVars>>

----------------------------------------------------------------------------
(* batch_wind_tunnels.py, large_job_submission.py *)

NUM_SIMULATIONS_PER_OBJECT == 1
NUM_ITERATIONS == 100
RESOLUTION == 2
DOMAIN_X == <<-5, 20>>
DOMAIN_Y == <<-5, 5>>
DOMAIN_Z == <<0, 8>>

\* np.random.uniform(low, high), on the integers
uniform(low, high) == IF low <= high THEN low..high ELSE high..low

VelocityRanges == {r \in (0..MaxRange) \X (0..MaxRange) : r[1] <= r[2]}

DatasetObjects == [k \in 1..MaxObjects |-> <<"dataset", k>>]

InitBatch ==
    /\ prog = "batch"
    /\ pc = "start"
    /\ \E n \in 0..MaxObjects : object_paths = SubSeq(DatasetObjects, 1, n)
    /\ flow_velocity_range_x \in VelocityRanges
    /\ flow_velocity_range_y \in VelocityRanges
    /\ flow_velocity_range_z \in VelocityRanges
    /\ the_machine_group = [kind |-> "none", started |-> FALSE]
    /\ sampled_velocity = <<>>
    /\ runs = 0
    /\ NoModels /\ NoMonitor

\* make_machine_group(...), or MachineGroup(...) in batch_wind_tunnels.py
BatchMakeMachineGroup ==
    /\ prog = "batch" /\ pc = "start"
    /\ \E elastic_machine_group \in BOOLEAN :
          the_machine_group' = [kind |-> IF elastic_machine_group
                                     THEN "ElasticMachineGroup" ELSE "MachineGroup",
                            started |-> FALSE]
    /\ pc' = "machine_group"
    /\ UNCHANGED <<prog, object_paths, flow_velocity_range_x, flow_velocity_range_y,
                   flow_velocity_range_z, sampled_velocity, runs, modelVars, monitorVars>>

\* machine_group.start()
BatchStart ==
    /\ prog = "batch" /\ pc = "machine_group"
    /\ the_machine_group' = [the_machine_group EXCEPT !.started = TRUE]
    /\ pc' = "loop"
    /\ UNCHANGED <<prog, object_paths, flow_velocity_range_x, flow_velocity_range_y,
                   flow_velocity_range_z, sampled_velocity, runs, modelVars, monitorVars>>

\* one call of run_simulation from the loops of main: an exception raised by a
\* constructor or by simulate leaves main
BatchRunSimulation ==
    /\ prog = "batch" /\ pc = "loop"
    /\ runs < Len(object_paths) * NUM_SIMULATIONS_PER_OBJECT
    /\ LET object_path == object_paths[(runs \div NUM_SIMULATIONS_PER_OBJECT) + 1]
       IN  \E vx \in uniform(flow_velocity_range_x[1], flow_velocity_range_x[2]),
              vy \in uniform(flow_velocity_range_y[1], flow_velocity_range_y[2]),
              vz \in uniform(flow_velocity_range_y[1], flow_velocity_range_z[2]) :
              LET wkw == << <<"flow_velocity", <<vx, vy, vz>> >>,
                            <<"x_min", DOMAIN_X[1]>>, <<"x_max", DOMAIN_X[2]>>,
                            <<"y_min", DOMAIN_Y[1]>>, <<"y_max", DOMAIN_Y[2]>>,
                            <<"z_min", DOMAIN_Z[1]>>, <<"z_max", DOMAIN_Z[2]>> >>
                  wind_tunnel == WindTunnel(wkw)
                  skw == << <<"num_iterations", NUM_ITERATIONS>>,
                            <<"resolution", RESOLUTION>> >>
                  sim_parameters == SimulationParameters(skw)
                  task == simulate(wind_tunnel.obj,
                                   << <<"object_path", object_path>>,
                                      <<"sim_params", sim_parameters.obj>>,
                                      <<"on", Some("machine_group")>> >>)
              IN  /\ sampled_velocity' = <<vx, vy, vz>>
                  /\ wt_in' = wkw
                  /\ wt' = wind_tunnel
                  /\ sp_in' = IF wind_tunnel.ok THEN skw ELSE sp_in
                  /\ sp' = IF wind_tunnel.ok THEN sim_parameters ELSE sp
                  /\ IF wind_tunnel.ok /\ sim_parameters.ok /\ task.ok
                     THEN /\ tasks' = Append(tasks, task.obj)
                          /\ runs' = runs + 1
                          /\ pc' = "loop"
                     ELSE /\ tasks' = tasks
                          /\ runs' = runs
                          /\ pc' = "raised"
    /\ UNCHANGED <<prog, object_paths, flow_velocity_range_x, flow_velocity_range_y,
                   flow_velocity_range_z, the_machine_group, rt, scenario, monitorVars>>

\* the loops of main are exhausted and main returns
BatchReturn ==
    /\ prog = "batch" /\ pc = "loop"
    /\ runs = Len(object_paths) * NUM_SIMULATIONS_PER_OBJECT
    /\ pc' = "done"
    /\ UNCHANGED <<prog, object_paths, flow_velocity_range_x, flow_velocity_range_y,
                   flow_velocity_range_z, the_machine_group, sampled_velocity, runs, modelVars,
                   monitorVars>>

----------------------------------------------------------------------------

vars == <<prog, pc, modelVars, monitorVars, batchVars>>

Init == InitModels \/ InitExample \/ InitMonitor \/ InitBatch

Next ==
    \/ NewWindTunnel
    \/ NewSimulationParameters
    \/ RebuildWindTunnel
    \/ RebuildSimulationParameters
    \/ ExampleWindTunnel
    \/ ExampleSimulationParameters
    \/ ExampleScenario
    \/ ExampleSimulate
    \/ MonitorRecord
    \/ MonitorPrint
    \/ BatchMakeMachineGroup
    \/ BatchStart
    \/ BatchRunSimulation
    \/ BatchReturn

Spec == Init /\ [][Next]_vars

----------------------------------------------------------------------------
(* Properties *)

\* what the caller asked for, read off the keyword arguments
GivenVelocity ==
    IF HasKey(wt_in, "flow_velocity") THEN Get(wt_in, "flow_velocity")
                                      ELSE DefaultFlowVelocity
GivenDomain == IF HasKey(wt_in, "domain") THEN Get(wt_in, "domain") ELSE None
SquaredMagnitude(v) == v[1] * v[1] + v[2] * v[2] + v[3] * v[3]
Ordered(domain) == \A i \in 1..Len(domain) : domain[i][2][1] < domain[i][2][2]
WindTunnelBuilt == prog = "models" /\ pc \in {"wind_tunnel", "wind_tunnel_rebuilt"}
SimulationParametersBuilt == prog = "models" /\ pc \in {"sim_params", "sim_params_rebuilt"}

\* C1: WindTunnel construction fails with the validation error when the squared
\* magnitude of flow_velocity is at least 100^2; it succeeds when it is below 100^2
\* and the domain (omitted, or the mapping x, y, z) has min < max on every axis; an
\* instance always carries the flow_velocity it was given (nothing is clamped).
C1_VelocityLimit ==
    WindTunnelBuilt =>
        /\ SquaredMagnitude(GivenVelocity) >= 100 * 100
              => ~wt.ok /\ wt.err = ValidationError
        /\ ( /\ SquaredMagnitude(GivenVelocity) < 100 * 100
             /\ \/ GivenDomain = None
                \/ /\ Keys(GivenDomain[1]) = <<"x", "y", "z">>
                   /\ Ordered(GivenDomain[1]) )
              => wt.ok
        /\ wt.ok => wt.obj.flow_velocity = GivenVelocity

\* C1 witness: a velocity of magnitude exactly 100 was rejected
C1_Witness ==
    /\ WindTunnelBuilt
    /\ SquaredMagnitude(GivenVelocity) = 100 * 100
    /\ GivenVelocity[2] # 0
    /\ ~wt.ok

\* C2: a domain in which some axis has min >= max fails construction.
C2_UnorderedDomainRejected ==
    (WindTunnelBuilt /\ GivenDomain # None /\ ~Ordered(GivenDomain[1])) => ~wt.ok

GivenNumIterations ==
    IF HasKey(sp_in, "num_iterations") THEN Get(sp_in, "num_iterations")
                                       ELSE DefaultNumIterations
GivenResolution ==
    IF HasKey(sp_in, "resolution") THEN Get(sp_in, "resolution") ELSE DefaultResolution

\* C8: SimulationParameters construction yields an instance only when
\* num_iterations and resolution are both positive, and fails when either is
\* <= 0; no task is assembled from a non-positive parameter.
C8_NonPositiveRejected ==
    /\ SimulationParametersBuilt
          => (sp.ok <=> (GivenNumIterations > 0 /\ GivenResolution > 0))
    /\ \A i \in 1..Len(tasks) :
          /\ Get(tasks[i].params, "num_iterations") > 0
          /\ Get(tasks[i].params, "resolution") > 0

\* C9: a model rebuilt from the mapping its to_dict() returned is built
\* successfully and equals the original, for WindTunnel (the domain given or
\* defaulted) and for SimulationParameters.
C9_RoundTrip ==
    /\ (prog = "models" /\ pc = "wind_tunnel_rebuilt") => rt.ok /\ rt.obj = wt.obj
    /\ (prog = "models" /\ pc = "sim_params_rebuilt") => rt.ok /\ rt.obj = sp.obj

\* C9 witness: a WindTunnel built without a domain argument, with a velocity of
\* its own, has been rebuilt from its to_dict()
C9_Witness ==
    /\ prog = "models" /\ pc = "wind_tunnel_rebuilt"
    /\ ~HasKey(wt_in, "domain")
    /\ wt.obj.flow_velocity = <<-60, 40, 20>>
    /\ rt.ok

Pipeline ==
    << "extract_features", "generate_block_mesh", "decompose_domain",
       "parallel_mesh_refine", "initial_potential_solve", "steady_state_solve",
       "reconstruct_mesh", "reconstruct_fields" >>

\* C3: every task handed to the backend by simulate carries the same 8 stages in
\* the same order, whatever the wind tunnel, the parameters and the object path.
C3_FixedPipeline ==
    \A i \in 1..Len(tasks) :
        /\ Len(tasks[i].commands) = 8
        /\ [k \in 1..Len(tasks[i].commands) |-> StageOf(tasks[i].commands[k])] = Pipeline

\* C3 witness: two simulate calls with different objects and different parameters
C3_Witness ==
    /\ prog = "example" /\ Len(tasks) = 2
    /\ tasks[1].files # tasks[2].files
    /\ Get(tasks[1].params, "resolution") # Get(tasks[2].params, "resolution")
    /\ Get(tasks[1].params, "flow_velocity") = <<80, 0, 0>>

\* C10: the key sets of the two to_dict() mappings are disjoint, the merge in
\* simulate never fails, and the mapping passed to template assembly is their
\* union, each key with its own source's value.
C10_DisjointUnion ==
    /\ (prog = "example" /\ pc \in {"sim_params", "scenario", "submitted", "raised_simulate"})
          => KeySet(WindTunnel_to_dict(wt.obj))
                \cap KeySet(SimulationParameters_to_dict(sp.obj)) = {}
    /\ pc # "raised_simulate"
    /\ \A i \in 1..Len(tasks) :
          LET params == tasks[i].params
          IN  /\ Len(params) = 4
              /\ KeySet(params) = {"flow_velocity", "domain", "num_iterations", "resolution"}
              /\ Get(params, "flow_velocity") = scenario.flow_velocity
              /\ Get(params, "domain") = scenario.domain
              /\ \/ /\ Get(params, "num_iterations") = sp.obj.num_iterations
                    /\ Get(params, "resolution") = sp.obj.resolution
                 \/ /\ Get(params, "num_iterations") = DefaultNumIterations
                    /\ Get(params, "resolution") = DefaultResolution

\* C10 witness: a task was submitted with parameters that are not the defaults
C10_Witness ==
    /\ prog = "example" /\ pc = "submitted"
    /\ Get(tasks[1].params, "num_iterations") = -1
    /\ Get(tasks[1].params, "domain") = Some(DefaultDomain)

RECURSIVE SumCounts(_)
SumCounts(counts) ==
    IF counts = <<>> THEN 0 ELSE counts[1][2] + SumCounts(Tail(counts))

\* C4: reconciling a log of N records ends with a printed status-count mapping
\* whose counts sum to N; a record whose id no longer resolves does not raise,
\* is counted under "unknown", and the records after it are processed.
C4_CountsCoverLog ==
    (prog = "monitor" /\ pc \in {"done", "raised"})
        => /\ pc = "done"
           /\ printed # None
           /\ SumCounts(printed[1]) = Len(json_lines)
           /\ Len(statuses) = Len(json_lines)

Downloads(k) ==
    {j \in 1..Len(calls) : calls[j].op = "download_outputs" /\ calls[j].record = k}

\* C5: download_outputs is called for a record exactly when its queried status
\* is success and the download flag is set, at most once, after the record was
\* counted, for that record's task and into <input_dir>/downloaded_outputs.
C5_DownloadOnSuccess ==
    prog = "monitor" =>
        /\ \A k \in 1..Len(statuses) :
              /\ Downloads(k) # {} <=> (statuses[k] = "success" /\ DOWNLOAD_TASKS)
              /\ Cardinality(Downloads(k)) <= 1
              /\ \A j \in Downloads(k) :
                    /\ calls[j].task_id = json_lines[k].task_id
                    /\ calls[j].output_dir
                          = Append(json_lines[k].input_dir, "downloaded_outputs")
                    /\ \E c \in 1..(j - 1) :
                          calls[c].op = "count" /\ calls[c].record = k
        /\ \A j \in 1..Len(calls) : calls[j].record \in 1..Len(statuses)

\* C5 witness: the second record, in another directory than the first, was
\* downloaded after a first record that was not
C5_Witness ==
    /\ prog = "monitor" /\ Len(statuses) >= 2
    /\ statuses[1] = "failed" /\ statuses[2] = "success"
    /\ json_lines[1].input_dir # json_lines[2].input_dir
    /\ Downloads(1) = {} /\ Downloads(2) # {}

\* C7: when main of a batch script has ended, the machine group was started
\* and, for each object and each repetition, run_simulation has submitted a
\* task bound to that started group.
C7_JobsBoundToStartedPool ==
    (prog = "batch" /\ pc \in {"done", "raised"})
        => /\ the_machine_group.started
           /\ Len(tasks) = Len(object_paths) * NUM_SIMULATIONS_PER_OBJECT
           /\ \A i \in 1..Len(tasks) : tasks[i].machine_group = Some("machine_group")

InRange(v, range) == range[1] <= v /\ v <= range[2]

\* C11: each component of the flow velocity sampled by run_simulation lies in
\* the range configured for its own axis: x in flow_velocity_range_x, y in
\* flow_velocity_range_y and z in flow_velocity_range_z.
C11_ComponentsInOwnRange ==
    (prog = "batch" /\ Len(sampled_velocity) = 3)
        => /\ InRange(sampled_velocity[1], flow_velocity_range_x)
           /\ InRange(sampled_velocity[2], flow_velocity_range_y)
           /\ InRange(sampled_velocity[3], flow_velocity_range_z)

====
